---- MODULE Spec2Model ----
(***************************************************************************)
(* Model of rules/list-item.js, the remark-lint:awesome-list-item rule.    *)
(*                                                                         *)
(* A string is a sequence of characters; each character is a one-element   *)
(* token (a UTF-16 code unit of the JavaScript string).  A syntax-tree     *)
(* node is a record [type, value, children, url].  validateList and        *)
(* validateListItemDescription are state machines whose program counter    *)
(* walks the statements of the source; the regular expressions of the      *)
(* source are operators over character sequences.                          *)
(***************************************************************************)
EXTENDS Integers, Sequences, FiniteSets, TLC

VARIABLES
    pc,                 \* position in validateList / validateListItemDescription
    listIdx,            \* number of lists whose validation has started
    itemIdx,            \* number of list items of the current list taken by the for loop
    listItem,           \* the list item of the current iteration
    link,               \* local link of validateList
    description,        \* local description (validateList) / parameter of the validator
    lastNonBadgeIndex,  \* local of validateListItemDescription (0-based, -1 when none)
    messages,           \* diagnostics file.message received for the current list item
    reported,           \* number of diagnostics file.message received in the whole run
    failing,            \* number of list items taken so far in which some step fails
    ran,                \* the validation steps that ran for the current list item
    retval              \* return value of validateListItemDescription

vars == << pc, listIdx, itemIdx, listItem, link, description, lastNonBadgeIndex,
           messages, reported, failing, ran, retval >>

(***************************************************************************)
(* Bounds of the model.                                                    *)
(***************************************************************************)
MaxLen == 3
MaxFiller == 2
MaxLists == 2
MaxItems == 2

(***************************************************************************)
(* Characters.                                                             *)
(***************************************************************************)
SP == " "
NBSP == "nbsp"
DASH == "-"
ENDASH == "endash"
EMDASH == "emdash"
SLASH == "/"
DOT == "."
ELLIPSIS == "ellipsis"
QUOTE == "dquote"
RDQUO == "rdquo"
LDQUO == "ldquo"
APOS == "apos"
LPAREN == "("
RPAREN == ")"
BACKTICK == "backtick"
EMOJI == "emoji"

\* \s of a JavaScript regular expression (which includes U+00A0)
Whitespace == {SP, NBSP}
\* [.!?...] of the punctuation rules
Punctuation == {DOT, "!", "?", ELLIPSIS}
\* the straight and the curly closing double quote of the punctuation rules
ClosingQuotes == {QUOTE, RDQUO}
\* \w of a JavaScript regular expression
WordChars == {"a", "A", "1", "_"}
Digits == {"1"}
LowerLetters == {"a"}
UpperLetters == {"A"}

\* String(undefined), what RegExp.prototype.exec makes of an undefined argument
UndefinedText == << "u", "n", "d", "e", "f", "i", "n", "e", "d" >>

(***************************************************************************)
(* String primitives.                                                      *)
(***************************************************************************)
startsWith(s, p) ==
    /\ Len(s) >= Len(p)
    /\ SubSeq(s, 1, Len(p)) = p

RECURSIVE trimEnd(_)
trimEnd(s) ==
    IF s # << >> /\ s[Len(s)] \in Whitespace
    THEN trimEnd(SubSeq(s, 1, Len(s) - 1))
    ELSE s

RECURSIVE trimStart(_)
trimStart(s) ==
    IF s # << >> /\ s[1] \in Whitespace THEN trimStart(Tail(s)) ELSE s

trim(s) == trimStart(trimEnd(s))

IsEmojiChar(c) == c = EMOJI

\* text.replace(emojiRegex(), empty string)
removeEmoji(s) == SelectSeq(s, LAMBDA c : ~IsEmojiChar(c))

\* text.split on dash, space, semicolon, period, slash, apostrophe: the pieces
\* between separators, empty ones included
Separators == {DASH, SP, ";", DOT, SLASH, APOS}

RECURSIVE split(_, _)
split(s, cur) ==
    IF s = << >> THEN << cur >>
    ELSE IF s[1] \in Separators THEN << cur >> \o split(Tail(s), << >>)
    ELSE split(Tail(s), Append(cur, s[1]))

tokenizeWords(text) == SelectSeq(split(text, << >>), LAMBDA w : w # << >>)

\* 0-based index of the last emoji match in text, -1 when there is none
LastEmojiIndex(text) ==
    LET hits == {i \in 1..Len(text) : IsEmojiChar(text[i])}
    IN  IF hits = {} THEN -1 ELSE (CHOOSE i \in hits : \A j \in hits : j <= i) - 1

textEndsWithEmoji(text) ==
    LET emojiIndex == LastEmojiIndex(text)
    IN  emojiIndex >= 0 /\ 1 + emojiIndex >= Len(text)

(***************************************************************************)
(* Nodes of the syntax tree and mdast-util-to-string.                      *)
(***************************************************************************)
Node(t, v, ch, u) == [type |-> t, value |-> v, children |-> ch, url |-> u]

Text(v) == Node("text", v, << >>, "")
InlineCode(v) == Node("inlineCode", v, << >>, "")
Html(v) == Node("html", v, << >>, "")
Image(alt) == Node("image", alt, << >>, "img.png")
Strong(v) == Node("strong", << >>, << Text(v) >>, "")
Emphasis(v) == Node("emphasis", << >>, << Text(v) >>, "")
Delete(v) == Node("delete", << >>, << Text(v) >>, "")
FootnoteReference == Node("footnoteReference", << >>, << >>, "")
LinkNode(ch, u) == Node("link", << >>, ch, u)
LinkReference(ch) == Node("linkReference", << >>, ch, "")
Paragraph(ch) == Node("paragraph", << >>, ch, "")
CodeBlock == Node("code", << "a" >>, << >>, "")
\* the value of paragraph when the list item has no children
UndefinedNode == Node("undefined", << >>, << >>, "")

RECURSIVE toString(_)
toString(node) ==
    IF node.type \in {"text", "inlineCode", "html", "code"} THEN node.value
    ELSE IF node.type = "image" THEN node.value
    ELSE IF node.children = << >> THEN << >>
    ELSE toString(node.children[1])
             \o toString([node EXCEPT !.children = Tail(node.children)])

Root(children) == Node("root", << >>, children, "")

\* is-url-superb on the URLs of the model
isUrl(u) == u \in {"https://example.com"}

(***************************************************************************)
(* Module-level allow lists.                                               *)
(***************************************************************************)
listItemPrefixCaseAllowList == {"camel", "capital", "constant", "pascal", "upper"}

listItemLinkNodeAllowList == {"emphasis", "inlineCode", "text"}

listItemDescriptionNodeAllowList ==
    {"emphasis", "footnoteReference", "html", "image", "inlineCode", "link",
     "linkReference", "strong", "text"}

listItemDescriptionSuffixNodeAllowList ==
    {"emphasis", "html", "image", "link", "strong", "text"}

\* lib/identifier-allow-list.js: literal words exempt from the casing rule
identifierAllowList == { << "a", "a" >> }

(***************************************************************************)
(* Diagnostics.                                                            *)
(***************************************************************************)
MsgInvalidItem == "Invalid list item"
MsgInvalidLink == "Invalid list item link"
MsgInvalidUrl == "Invalid list item link URL"
MsgInvalidLinkText == "Invalid list item link text"
MsgInvalidWhitespace == "List item link and description separated by invalid whitespace"
MsgInvalidDash == "List item link and description separated by invalid en-dash or em-dash"
MsgNoDash == "List item link and description must be separated with a dash"
MsgOnlyBadges == "List item description must not consist of only badges"
MsgPunctuation == "List item description must end with proper punctuation"
MsgMarkdown == "List item description contains invalid markdown"
MsgNonEmpty == "List item description must start with a non-empty string"
MsgCasing == "List item description must start with valid casing"

Message(m, node) == [message |-> m, node |-> node]

(***************************************************************************)
(* Regular expressions of the source, as predicates on character sequences.*)
(***************************************************************************)
AllIn(s, from, to, S) == \A k \in from..to : s[k] \in S

\* /^[\s ]-[\s ]/
MatchesWhitespaceDash(s) ==
    /\ Len(s) >= 3
    /\ s[1] \in Whitespace
    /\ s[2] = DASH
    /\ s[3] \in Whitespace

\* the character class of the regular expression of line 205
InvalidDashChars == {SLASH, ENDASH, EMDASH}

\* /^\s*[/\u{02013}\u{02014}]/u
MatchesInvalidDash(s) ==
    \E i \in 1..Len(s) :
        /\ s[i] \in InvalidDashChars
        /\ AllIn(s, 1, i - 1, Whitespace)

\* /^\s*$/
IsBlank(s) == AllIn(s, 1, Len(s), Whitespace)

\* /^\s\([^)]+\)\s*$/
MatchesSpacedParenthetical(s) ==
    /\ Len(s) >= 4
    /\ s[1] \in Whitespace
    /\ s[2] = LPAREN
    /\ \E j \in 4..Len(s) :
           /\ s[j] = RPAREN
           /\ \A k \in 3..(j - 1) : s[k] # RPAREN
           /\ AllIn(s, j + 1, Len(s), Whitespace)

\* /^\([^)]+\)$/
MatchesParenthetical(s) ==
    /\ Len(s) >= 3
    /\ s[1] = LPAREN
    /\ s[Len(s)] = RPAREN
    /\ \A k \in 2..(Len(s) - 1) : s[k] # RPAREN

\* line 371: a backtick first, and later a backtick followed by punctuation only
MatchesBacktickQuoted(s) ==
    /\ Len(s) >= 2
    /\ s[1] = BACKTICK
    /\ \E j \in 2..Len(s) :
           /\ s[j] = BACKTICK
           /\ AllIn(s, j + 1, Len(s), Punctuation)

\* line 374: three backticks, each followed by at least one character
MatchesSeveralBackticks(s) ==
    /\ Len(s) >= 6
    /\ s[1] = BACKTICK
    /\ \E j \in 3..Len(s) : \E k \in (j + 2)..(Len(s) - 1) :
           s[j] = BACKTICK /\ s[k] = BACKTICK

\* line 384: a closing quote, then one or more punctuation marks to the end
MatchesQuoteThenPunctuation(s) ==
    \E i \in 1..(Len(s) - 1) :
        /\ s[i] \in ClosingQuotes
        /\ AllIn(s, i + 1, Len(s), Punctuation)

\* line 386: a punctuation mark, a closing quote, then punctuation to the end
MatchesPunctuationQuotePunctuation(s) ==
    \E i \in 2..(Len(s) - 1) :
        /\ s[i] \in ClosingQuotes
        /\ s[i - 1] \in Punctuation
        /\ AllIn(s, i + 1, Len(s), Punctuation)

\* line 395: a punctuation mark, optionally followed by a closing quote, at the end
MatchesPunctuationThenQuote(s) ==
    \/ Len(s) >= 1 /\ s[Len(s)] \in Punctuation
    \/ Len(s) >= 2 /\ s[Len(s)] \in ClosingQuotes /\ s[Len(s) - 1] \in Punctuation

\* /[.!?...]/
HasPunctuation(s) == \E i \in 1..Len(s) : s[i] \in Punctuation

\* /\)\s*$/
MatchesClosingParenthesis(s) ==
    LET t == trimEnd(s) IN t # << >> /\ t[Len(t)] = RPAREN

\* /\d/
HasDigit(s) == \E i \in 1..Len(s) : s[i] \in Digits

\* line 342: starts with a double quote, an apostrophe or an opening parenthesis
StartsWithQuoteOrParenthesis(s) ==
    s # << >> /\ s[1] \in {QUOTE, LDQUO, APOS, LPAREN}

\* firstWord.replaceAll(/\W+/g, empty string)
removeNonWord(s) == SelectSeq(s, LAMBDA c : c \in WordChars)

\* Case.of of the case package, on words of letters and digits
caseOf(w) ==
    LET uppers == {i \in 1..Len(w) : w[i] \in UpperLetters}
        lowers == {i \in 1..Len(w) : w[i] \in LowerLetters}
        adjacentUppers == \E i \in uppers : i + 1 \in uppers
    IN  IF uppers = {} THEN "lower"
        ELSE IF lowers = {} THEN "constant"
        ELSE IF 1 \in lowers
             THEN (IF adjacentUppers THEN "undefined" ELSE "camel")
        ELSE IF uppers = {1} THEN "capital"
        ELSE "pascal"

(***************************************************************************)
(* The validators of the source, as functions of their arguments.  A       *)
(* validator that reports yields the message it reports, else ok.          *)
(***************************************************************************)
\* validateListItemLink with the text check placed before the URL check
validateListItemLinkTextFirst(l) ==
    IF l.type = "linkReference" THEN "ok"
    ELSE IF l.type # "link" THEN MsgInvalidLink
    ELSE IF toString(l) = << >> THEN MsgInvalidLinkText
    ELSE IF ~isUrl(l.url) THEN MsgInvalidUrl
    ELSE "ok"

\* validateListItemLink: the message reported, or ok
validateListItemLink(l) ==
    IF l.type = "linkReference" THEN "ok"
    ELSE IF l.type # "link" THEN MsgInvalidLink
    ELSE IF ~isUrl(l.url) THEN MsgInvalidUrl
    ELSE IF toString(l) = << >> THEN MsgInvalidLinkText
    ELSE "ok"

\* validateListItemLinkChildren: 1-based index of the child reported, 0 when none
validateListItemLinkChildren(l) ==
    LET bad == {i \in 1..Len(l.children) :
                    l.children[i].type \notin listItemLinkNodeAllowList}
    IN  IF bad = {} THEN 0 ELSE CHOOSE i \in bad : \A j \in bad : i <= j

validateListItemSpecialCases(desc, descriptionText) ==
    IF startsWith(descriptionText, << SP, DASH, SP >>) THEN FALSE
    ELSE LET text == trim(removeEmoji(descriptionText))
         IN  IF text = << >> THEN TRUE
             ELSE IF MatchesSpacedParenthetical(descriptionText) THEN TRUE
             ELSE IF MatchesParenthetical(text) THEN TRUE
             ELSE FALSE

validateListItemPrefix(descriptionText, prefixText) ==
    IF startsWith(prefixText, << SP, DASH, SP >>) THEN TRUE
    ELSE IF textEndsWithEmoji(prefixText) /\ descriptionText = prefixText THEN TRUE
    ELSE FALSE

\* validateListItemPrefixCasing: the message reported, or ok
validateListItemPrefixCasing(prefix) ==
    LET strippedPrefix == SubSeq(prefix.value, 4, Len(prefix.value))
        words == tokenizeWords(strippedPrefix)
    IN  IF words = << >> THEN MsgNonEmpty
        ELSE LET firstWord == words[1]
             IN  IF /\ caseOf(removeNonWord(firstWord)) \notin listItemPrefixCaseAllowList
                    /\ ~HasDigit(firstWord)
                    /\ ~StartsWithQuoteOrParenthesis(firstWord)
                    /\ firstWord \notin identifierAllowList
                 THEN MsgCasing
                 ELSE "ok"

\* validateListItemSuffix without the check of line 386
validateListItemSuffixNoQuoteCheck(descriptionText, suffixText) ==
    IF MatchesBacktickQuoted(descriptionText)
    THEN MatchesSeveralBackticks(descriptionText)
    ELSE IF MatchesQuoteThenPunctuation(descriptionText) THEN TRUE
    ELSE IF MatchesPunctuationThenQuote(descriptionText) THEN TRUE
    ELSE LET tokens == tokenizeWords(descriptionText)
             lastToken == IF tokens = << >> THEN UndefinedText
                          ELSE tokens[Len(tokens)]
         IN  IF /\ ~HasPunctuation(descriptionText)
                /\ (Len(tokens) > 2 \/ ~textEndsWithEmoji(lastToken))
             THEN FALSE
             ELSE IF MatchesClosingParenthesis(suffixText) THEN TRUE
             ELSE IF textEndsWithEmoji(suffixText) THEN TRUE
             ELSE FALSE

validateListItemSuffix(descriptionText, suffixText) ==
    IF MatchesBacktickQuoted(descriptionText)
    THEN MatchesSeveralBackticks(descriptionText)
    ELSE IF MatchesQuoteThenPunctuation(descriptionText)
    THEN ~MatchesPunctuationQuotePunctuation(descriptionText)
    ELSE IF MatchesPunctuationThenQuote(descriptionText) THEN TRUE
    ELSE LET tokens == tokenizeWords(descriptionText)
             lastToken == IF tokens = << >> THEN UndefinedText
                          ELSE tokens[Len(tokens)]
         IN  IF /\ ~HasPunctuation(descriptionText)
                /\ (Len(tokens) > 2 \/ ~textEndsWithEmoji(lastToken))
             THEN FALSE
             ELSE IF MatchesClosingParenthesis(suffixText) THEN TRUE
             ELSE IF textEndsWithEmoji(suffixText) THEN TRUE
             ELSE FALSE

(***************************************************************************)
(* Locals of validateListItemDescription, as functions of the description. *)
(***************************************************************************)
IsBadge(node) ==
    \/ node.type = "inlineCode"
    \/ node.type = "text" /\ IsBlank(toString(node))

\* the while loop of lines 221-229, from index i (0-based) downwards
RECURSIVE scanBadges(_, _)
scanBadges(desc, i) ==
    IF i >= 0 /\ IsBadge(desc[i + 1]) THEN scanBadges(desc, i - 1) ELSE i

\* the badge scan left out: the last node is taken as the last non-badge node
LastNonBadgeIndexNoScan(desc) == Len(desc) - 1

LastNonBadgeIndex(desc) == scanBadges(desc, Len(desc) - 1)

hasBadges(desc, lnbi) == lnbi < Len(desc) - 1

beforeBadges(desc, lnbi) == SubSeq(desc, 1, lnbi + 1)

\* lines 258-263
lastSuffixText(desc, lnbi) ==
    LET flat == toString(Root(beforeBadges(desc, lnbi)))
    IN  IF hasBadges(desc, lnbi) THEN trimEnd(flat) ELSE flat

\* lines 196-217: the message of a failed dash-separator check
dashMessage(dashText) ==
    IF MatchesWhitespaceDash(dashText) THEN MsgInvalidWhitespace
    ELSE IF MatchesInvalidDash(dashText) THEN MsgInvalidDash
    ELSE MsgNoDash

\* dash.length of line 288: a syntax-tree node carries no length property
NodeLength(node) == "undefined"

\* x > n of JavaScript, with undefined > n false
JsGreater(x, n) == x # "undefined" /\ x > n

\* lines 281-286: 1-based index of the first node outside the allow list, 0 when none
firstInvalidMarkdown(nodes) ==
    LET bad == {i \in 1..Len(nodes) :
                    nodes[i].type \notin listItemDescriptionNodeAllowList}
    IN  IF bad = {} THEN 0 ELSE CHOOSE i \in bad : \A j \in bad : i <= j

(***************************************************************************)
(* file.message and return.                                                *)
(***************************************************************************)
Report(m, node) ==
    /\ messages' = Append(messages, Message(m, node))
    /\ reported' = reported + 1

NoReport == UNCHANGED << messages, reported >>

Step(name) == ran' = ran \cup {name}

ListVars == << listIdx, itemIdx, listItem, link, failing >>

(***************************************************************************)
(* validateListItemDescription, statement by statement.                    *)
(***************************************************************************)
\* lines 178-180
DescriptionEmpty ==
    /\ pc = "validateListItemDescription"
    /\ Step("description")
    /\ IF Len(description) = 0
       THEN pc' = "return" /\ retval' = "undefined"
       ELSE pc' = "special" /\ UNCHANGED retval
    /\ NoReport
    /\ UNCHANGED << ListVars, description, lastNonBadgeIndex >>

\* lines 182-186
SpecialCases ==
    /\ pc = "special"
    /\ Step("special")
    /\ IF validateListItemSpecialCases(description, toString(Root(description)))
       THEN pc' = "return" /\ retval' = "true"
       ELSE pc' = "dash" /\ UNCHANGED retval
    /\ NoReport
    /\ UNCHANGED << ListVars, description, lastNonBadgeIndex >>

\* lines 188-218
DashSeparator ==
    /\ pc = "dash"
    /\ Step("dash")
    /\ LET dash == description[1]
           dashText == toString(dash)
           descriptionText == toString(Root(description))
       IN  IF dash.type # "text" \/ ~validateListItemPrefix(descriptionText, dashText)
           THEN /\ Report(dashMessage(dashText), dash)
                /\ pc' = "return"
                /\ retval' = "false"
           ELSE /\ NoReport
                /\ pc' = "badges"
                /\ UNCHANGED retval
    /\ UNCHANGED << ListVars, description, lastNonBadgeIndex >>

\* lines 220-238
BadgeScan ==
    /\ pc = "badges"
    /\ Step("badges")
    /\ lastNonBadgeIndex' = LastNonBadgeIndex(description)
    /\ IF lastNonBadgeIndex' < 0
       THEN /\ Report(MsgOnlyBadges, description[1])
            /\ pc' = "return"
            /\ retval' = "false"
       ELSE /\ NoReport
            /\ pc' = "suffixType"
            /\ UNCHANGED retval
    /\ UNCHANGED << ListVars, description >>

\* lines 240-251
SuffixNodeType ==
    /\ pc = "suffixType"
    /\ Step("suffixType")
    /\ LET suffixWithoutBadge == description[lastNonBadgeIndex + 1]
       IN  IF suffixWithoutBadge.type \notin listItemDescriptionSuffixNodeAllowList
           THEN /\ Report(MsgPunctuation, suffixWithoutBadge)
                /\ pc' = "return"
                /\ retval' = "false"
           ELSE /\ NoReport
                /\ pc' = "suffixPunctuation"
                /\ UNCHANGED retval
    /\ UNCHANGED << ListVars, description, lastNonBadgeIndex >>

\* lines 253-272
SuffixPunctuation ==
    /\ pc = "suffixPunctuation"
    /\ Step("suffixPunctuation")
    /\ LET suffixWithoutBadge == description[lastNonBadgeIndex + 1]
           suffixWithoutBadgeText == toString(suffixWithoutBadge)
       IN  IF /\ suffixWithoutBadge.type = "text"
              /\ ~validateListItemSuffix(lastSuffixText(description, lastNonBadgeIndex),
                                         suffixWithoutBadgeText)
           THEN /\ Report(MsgPunctuation, suffixWithoutBadge)
                /\ pc' = "return"
                /\ retval' = "false"
           ELSE /\ NoReport
                /\ pc' = "casing"
                /\ UNCHANGED retval
    /\ UNCHANGED << ListVars, description, lastNonBadgeIndex >>

\* lines 274-278 and 293: the description is one text node before the badges
PureTextCasing ==
    /\ pc = "casing"
    /\ lastNonBadgeIndex = 0
    /\ Step("casing")
    /\ LET dash == description[1]
           verdict == validateListItemPrefixCasing(dash)
       IN  IF verdict # "ok"
           THEN Report(verdict, dash) /\ retval' = "false"
           ELSE NoReport /\ retval' = "true"
    /\ pc' = "return"
    /\ UNCHANGED << ListVars, description, lastNonBadgeIndex >>

\* lines 279-293: the description mixes node types
MixedMarkup ==
    /\ pc = "casing"
    /\ lastNonBadgeIndex # 0
    /\ Step("markup")
    /\ LET dash == description[1]
           nodes == beforeBadges(description, lastNonBadgeIndex)
           bad == firstInvalidMarkdown(nodes)
       IN  IF bad # 0
           THEN Report(MsgMarkdown, nodes[bad]) /\ retval' = "false"
           ELSE IF /\ JsGreater(NodeLength(dash), 3)
                   /\ validateListItemPrefixCasing(dash) # "ok"
           THEN /\ Report(validateListItemPrefixCasing(dash), dash)
                /\ retval' = "false"
           ELSE NoReport /\ retval' = "true"
    /\ pc' = "return"
    /\ UNCHANGED << ListVars, description, lastNonBadgeIndex >>

DescriptionNext ==
    \/ DescriptionEmpty
    \/ SpecialCases
    \/ DashSeparator
    \/ BadgeScan
    \/ SuffixNodeType
    \/ SuffixPunctuation
    \/ PureTextCasing
    \/ MixedMarkup

(***************************************************************************)
(* validateList, statement by statement.  The rule hands it the lists of   *)
(* the document one after the other (lines 75-77).                         *)
(***************************************************************************)
ListItem(blocks) == Node("listItem", << >>, blocks, "")

\* const [paragraph] = listItem.children
FirstChild(item) ==
    IF item.children = << >> THEN UndefinedNode ELSE item.children[1]

\* the condition of lines 102-106
InvalidStructure(paragraph) ==
    \/ paragraph = UndefinedNode
    \/ paragraph.type # "paragraph"
    \/ Len(paragraph.children) = 0

IsLinkLike(node) == node.type \in {"linkReference", "link"}

\* the condition of the while loop of lines 119-123
KeepDiscarding(l, desc) == ~IsLinkLike(l) /\ Len(desc) > 1

\* line 108, 112, 129, 133 and the end of the loop body: the iteration ends
Continue == pc' = "continue"

\* lines 75-77: validateList is called for the next list
StartList ==
    /\ pc = "lists"
    /\ listIdx < MaxLists
    /\ listIdx' = listIdx + 1
    /\ itemIdx' = 0
    /\ pc' = "for"
    /\ UNCHANGED << listItem, link, description, lastNonBadgeIndex, messages,
                    reported, failing, ran, retval >>

\* lines 75-77: no list is left
Finish ==
    /\ pc = "lists"
    /\ pc' = "done"
    /\ UNCHANGED << listIdx, itemIdx, listItem, link, description, lastNonBadgeIndex,
                    messages, reported, failing, ran, retval >>

\* line 99: list.children has no further item
EndList ==
    /\ pc = "for"
    /\ pc' = "lists"
    /\ UNCHANGED << listIdx, itemIdx, listItem, link, description, lastNonBadgeIndex,
                    messages, reported, failing, ran, retval >>

\* lines 100-109
Structure ==
    /\ pc = "structure"
    /\ Step("structure")
    /\ LET paragraph == FirstChild(listItem)
       IN  IF InvalidStructure(paragraph)
           THEN Report(MsgInvalidItem, paragraph) /\ Continue
           ELSE NoReport /\ pc' = "textLed"
    /\ UNCHANGED << listIdx, itemIdx, listItem, link, description, lastNonBadgeIndex,
                    failing, retval >>

\* Decompose without the text-led escape of lines 111-113
DecomposeNoEscape ==
    /\ pc = "textLed"
    /\ LET children == FirstChild(listItem).children
       IN  /\ link' = children[1]
           /\ description' = Tail(children)
           /\ pc' = "while"
    /\ NoReport
    /\ UNCHANGED << listIdx, itemIdx, listItem, lastNonBadgeIndex, failing, ran, retval >>

\* lines 111-115
Decompose ==
    /\ pc = "textLed"
    /\ LET children == FirstChild(listItem).children
       IN  IF children[1].type = "text"
           THEN Continue /\ UNCHANGED << link, description >>
           ELSE /\ link' = children[1]
                /\ description' = Tail(children)
                /\ pc' = "while"
    /\ NoReport
    /\ UNCHANGED << listIdx, itemIdx, listItem, lastNonBadgeIndex, failing, ran, retval >>

\* lines 119-126: one iteration of the while loop
DiscardPrefix ==
    /\ pc = "while"
    /\ KeepDiscarding(link, description)
    /\ link' = description[1]
    /\ description' = Tail(description)
    /\ UNCHANGED << pc, listIdx, itemIdx, listItem, lastNonBadgeIndex, messages,
                    reported, failing, ran, retval >>

\* ValidateLink without the continue of line 129
ValidateLinkFallThrough ==
    /\ pc = "while"
    /\ ~KeepDiscarding(link, description)
    /\ Step("link")
    /\ LET verdict == validateListItemLink(link)
       IN  IF verdict # "ok"
           THEN Report(verdict, link) /\ pc' = "linkChildren"
           ELSE NoReport /\ pc' = "linkChildren"
    /\ UNCHANGED << listIdx, itemIdx, listItem, link, description, lastNonBadgeIndex,
                    failing, retval >>

\* lines 128-130, entered when the while loop ends
ValidateLink ==
    /\ pc = "while"
    /\ ~KeepDiscarding(link, description)
    /\ Step("link")
    /\ LET verdict == validateListItemLink(link)
       IN  IF verdict # "ok"
           THEN Report(verdict, link) /\ Continue
           ELSE NoReport /\ pc' = "linkChildren"
    /\ UNCHANGED << listIdx, itemIdx, listItem, link, description, lastNonBadgeIndex,
                    failing, retval >>

\* lines 132-136
ValidateLinkChildren ==
    /\ pc = "linkChildren"
    /\ Step("linkChildren")
    /\ LET bad == validateListItemLinkChildren(link)
       IN  IF bad # 0
           THEN Report(MsgInvalidLink, link.children[bad]) /\ Continue
           ELSE NoReport /\ pc' = "validateListItemDescription"
    /\ UNCHANGED << listIdx, itemIdx, listItem, link, description, lastNonBadgeIndex,
                    failing, retval >>

\* line 136-137: validateListItemDescription has returned
Returned ==
    /\ pc = "return"
    /\ Continue
    /\ UNCHANGED << listIdx, itemIdx, listItem, link, description, lastNonBadgeIndex,
                    messages, reported, failing, ran, retval >>

(***************************************************************************)
(* The validators as functions of a whole description and a whole list     *)
(* item: the diagnostic a complete run reports, "ok" when it reports none. *)
(***************************************************************************)
descriptionDiagnostic(desc) ==
    IF Len(desc) = 0 THEN "ok"
    ELSE IF validateListItemSpecialCases(desc, toString(Root(desc))) THEN "ok"
    ELSE IF \/ desc[1].type # "text"
            \/ ~validateListItemPrefix(toString(Root(desc)), toString(desc[1]))
    THEN dashMessage(toString(desc[1]))
    ELSE LET lnbi == LastNonBadgeIndex(desc)
         IN  IF lnbi < 0 THEN MsgOnlyBadges
             ELSE LET suffix == desc[lnbi + 1]
                  IN  IF suffix.type \notin listItemDescriptionSuffixNodeAllowList
                      THEN MsgPunctuation
                      ELSE IF /\ suffix.type = "text"
                              /\ ~validateListItemSuffix(lastSuffixText(desc, lnbi),
                                                         toString(suffix))
                      THEN MsgPunctuation
                      ELSE IF lnbi = 0 THEN validateListItemPrefixCasing(desc[1])
                      ELSE IF firstInvalidMarkdown(beforeBadges(desc, lnbi)) # 0
                      THEN MsgMarkdown
                      ELSE IF JsGreater(NodeLength(desc[1]), 3)
                      THEN validateListItemPrefixCasing(desc[1])
                      ELSE "ok"

\* lines 115-126: the link candidate and the description the while loop ends with
RECURSIVE discardPrefix(_, _)
discardPrefix(l, desc) ==
    IF KeepDiscarding(l, desc)
    THEN discardPrefix(desc[1], Tail(desc))
    ELSE [link |-> l, description |-> desc]

\* lines 100-137 for one list item
itemDiagnostic(item) ==
    LET paragraph == FirstChild(item)
    IN  IF InvalidStructure(paragraph) THEN MsgInvalidItem
        ELSE IF paragraph.children[1].type = "text" THEN "ok"
        ELSE LET d == discardPrefix(paragraph.children[1], Tail(paragraph.children))
             IN  IF validateListItemLink(d.link) # "ok"
                 THEN validateListItemLink(d.link)
                 ELSE IF validateListItemLinkChildren(d.link) # 0 THEN MsgInvalidLink
                 ELSE descriptionDiagnostic(d.description)

(***************************************************************************)
(* Inputs.                                                                 *)
(***************************************************************************)
Strings(alphabet, n) == UNION {[1..k -> alphabet] : k \in 0..n}

GoodUrl == "https://example.com"
BadUrl == "example"

\* link candidates: every combination the link stage tells apart
LinkCandidates ==
    { LinkNode(<< Text(<< "a" >>) >>, GoodUrl),
      LinkNode(<< Text(<< "a" >>) >>, BadUrl),
      LinkNode(<< >>, BadUrl),
      LinkNode(<< >>, GoodUrl),
      LinkNode(<< Emphasis(<< "a" >>), Strong(<< "a" >>), Image(<< >>) >>, GoodUrl),
      LinkReference(<< Text(<< "a" >>) >>),
      LinkReference(<< >>),
      LinkReference(<< InlineCode(<< "a" >>), Html(<< "a" >>) >>) }

\* nodes that may precede the link of a list item
FillerNodes == { Image(<< >>), Text(<< "a" >>) }

Fillers == Strings(FillerNodes, MaxFiller)

DashA == << SP, DASH, SP, "A" >>

\* what may follow the link candidate
ItemDescriptions ==
    { << >>,
      << Text(DashA \o << DOT >>) >>,
      << Text(<< SP, DASH, SP, "a", DOT >>) >>,
      << Text(DashA) >>,
      << Text(<< SP, ENDASH, SP, "A", DOT >>) >>,
      << Text(<< SP, LPAREN, "a", RPAREN >>) >>,
      << Text(DashA \o << DOT >>), LinkReference(<< Text(<< "a" >>) >>) >>,
      << Text(DashA \o << SP >>), Delete(<< "a" >>), Text(<< DOT >>) >>,
      << Text(DashA \o << DOT >>), Text(<< SP >>), InlineCode(<< "a" >>) >>,
      << LinkNode(<< Text(<< "a" >>) >>, GoodUrl) >>,
      << Image(<< >>), LinkNode(<< Text(<< "a" >>) >>, GoodUrl) >> }

Paragraphs ==
    { f \o d : f \in Fillers, d \in ItemDescriptions }
        \cup { f \o << l >> \o d :
                   f \in Fillers, l \in LinkCandidates, d \in ItemDescriptions }

ListItems ==
    { ListItem(<< >>), ListItem(<< CodeBlock >>) }
        \cup { ListItem(<< Paragraph(ch) >>) : ch \in Paragraphs }

\* the value of a local that is not yet assigned
NoNode == Node("none", << >>, << >>, "")

\* line 99: the for loop takes the next item of list.children
ForItem ==
    /\ pc = "for"
    /\ itemIdx < MaxItems
    /\ \E item \in ListItems :
           /\ listItem' = item
           /\ failing' = failing + (IF itemDiagnostic(item) # "ok" THEN 1 ELSE 0)
    /\ itemIdx' = itemIdx + 1
    /\ pc' = "structure"
    /\ UNCHANGED << listIdx, link, description, lastNonBadgeIndex, messages,
                    reported, ran, retval >>

\* lines 99 and 137: the iteration is over and its locals are gone
NextIteration ==
    /\ pc = "continue"
    /\ pc' = "for"
    /\ listItem' = NoNode
    /\ link' = NoNode
    /\ description' = << >>
    /\ lastNonBadgeIndex' = -1
    /\ messages' = << >>
    /\ ran' = {}
    /\ retval' = "undefined"
    /\ UNCHANGED << listIdx, itemIdx, reported, failing >>

Init ==
    /\ pc = "lists"
    /\ listIdx = 0
    /\ itemIdx = 0
    /\ listItem = NoNode
    /\ link = NoNode
    /\ description = << >>
    /\ lastNonBadgeIndex = -1
    /\ messages = << >>
    /\ reported = 0
    /\ failing = 0
    /\ ran = {}
    /\ retval = "undefined"

Next ==
    \/ StartList
    \/ Finish
    \/ EndList
    \/ ForItem
    \/ Structure
    \/ Decompose
    \/ DiscardPrefix
    \/ ValidateLink
    \/ ValidateLinkChildren
    \/ DescriptionEmpty
    \/ SpecialCases
    \/ DashSeparator
    \/ BadgeScan
    \/ SuffixNodeType
    \/ SuffixPunctuation
    \/ PureTextCasing
    \/ MixedMarkup
    \/ Returned
    \/ NextIteration

Spec == Init /\ [][Next]_vars

(***************************************************************************)
(* validateListItemDescription on its own, over descriptions whose texts   *)
(* are all strings of up to MaxLen characters.                             *)
(***************************************************************************)
\* characters the special cases and the dash-separator check tell apart
HeadAlphabet == {SP, NBSP, DASH, ENDASH, SLASH, LPAREN, RPAREN, "a", EMOJI}

\* characters the punctuation rules tell apart
TailAlphabet == {DOT, QUOTE, RDQUO, "A", RPAREN, EMOJI, SP}

\* characters the casing rule tells apart
WordAlphabet == {"a", "A", "1"}

DashPrefix == << SP, DASH, SP >>

\* descriptions told apart by their first node
HeadDescriptions ==
    { << Text(t) >> \o rest :
          t \in Strings(HeadAlphabet, MaxLen),
          rest \in { << >>, << InlineCode(<< "a" >>) >> } }
        \cup { << Strong(t) >> : t \in Strings(HeadAlphabet, MaxLen) }
        \cup { << InlineCode(t) >> : t \in Strings(HeadAlphabet, MaxLen) \ { << >> } }

\* trailing badges
BadgeTails ==
    { << >>,
      << InlineCode(<< "a" >>) >>,
      << Text(<< SP >>), InlineCode(<< "a" >>) >> }

\* descriptions of one text node, with and without trailing badges
TailDescriptions ==
    { << Text(DashPrefix \o t) >> \o badges :
          t \in Strings(TailAlphabet, MaxLen), badges \in BadgeTails }

\* descriptions that mix node types
MixedDescriptions ==
    { << Text(DashPrefix \o w), mid >> \o last \o badges :
          w \in Strings(WordAlphabet, MaxLen),
          mid \in { Strong(<< "a" >>), Delete(<< "a" >>), InlineCode(<< "a" >>),
                    FootnoteReference },
          last \in { << >>, << Text(<< DOT >>) >>, << Text(<< "a" >>) >> },
          badges \in { << >>, << InlineCode(<< "a" >>) >> } }

DescriptionInputs ==
    { << >> } \cup HeadDescriptions \cup TailDescriptions \cup MixedDescriptions

InitDesc ==
    /\ pc = "validateListItemDescription"
    /\ description \in DescriptionInputs
    /\ listIdx = 0
    /\ itemIdx = 0
    /\ listItem = NoNode
    /\ link = NoNode
    /\ lastNonBadgeIndex = -1
    /\ messages = << >>
    /\ reported = 0
    /\ failing = 0
    /\ ran = {}
    /\ retval = "undefined"

SpecDesc == InitDesc /\ [][DescriptionNext]_vars

(***************************************************************************)
(* Properties of validateList (specification Spec).                        *)
(***************************************************************************)
ItemTaken == listItem # NoNode

ItemFails(item) == itemDiagnostic(item) # "ok"

\* C1: every list item in which a validation step fails gets exactly one
\* diagnostic and every other list item none; once an item has its diagnostic
\* no further step of that item runs; so whenever the loop stands between
\* items, the diagnostics reported equal the failing items taken so far.
C1_OneDiagnosticPerFailingItem ==
    /\ Len(messages) <= 1
    /\ Len(messages) = 1 => pc \in {"return", "continue"}
    /\ pc \in {"return", "continue"} /\ ItemTaken =>
           Len(messages) = (IF ItemFails(listItem) THEN 1 ELSE 0)
    /\ pc \in {"continue", "for", "lists", "done"} => reported = failing
    /\ reported - Len(messages) =
           failing - (IF ItemTaken /\ ItemFails(listItem) THEN 1 ELSE 0)

\* C1 witness: in a second list, after an earlier item failed, an item that
\* fails in the description validator has just received its one diagnostic.
C1_Witness ==
    /\ pc = "return"
    /\ listIdx = 2
    /\ reported = 2
    /\ failing = 2
    /\ Len(messages) = 1
    /\ "dash" \in ran

\* the first inline node of a structurally valid list item is a text node
TextLed(item) ==
    /\ item.children # << >>
    /\ item.children[1].type = "paragraph"
    /\ item.children[1].children # << >>
    /\ item.children[1].children[1].type = "text"

\* no first child, a first child that is no paragraph, or an empty paragraph
Malformed(item) ==
    \/ item.children = << >>
    \/ item.children[1].type # "paragraph"
    \/ item.children[1].children = << >>

LaterSteps ==
    {"link", "linkChildren", "description", "special", "dash", "badges",
     "suffixType", "suffixPunctuation", "casing", "markup"}

\* C7: a text-led list item gets no diagnostic and none of the link validator,
\* the link-children guard and the description validator runs for it; a
\* malformed list item gets exactly the Invalid-list-item diagnostic and no
\* other check.
C7_TextLedExempt ==
    /\ ItemTaken /\ TextLed(listItem) =>
           /\ messages = << >>
           /\ ran \cap LaterSteps = {}
           /\ pc \in {"structure", "textLed", "continue"}
    /\ ItemTaken /\ Malformed(listItem) =>
           /\ ran \cap LaterSteps = {}
           /\ pc \in {"structure", "continue"}
           /\ pc = "continue" =>
                  messages = << Message(MsgInvalidItem, FirstChild(listItem)) >>

\* C7 witness: the iteration of a text-led item, whose later children hold a
\* link with an invalid URL, has ended without a diagnostic.
C7_Witness ==
    /\ pc = "continue"
    /\ ItemTaken
    /\ TextLed(listItem)
    /\ \E i \in 2..Len(listItem.children[1].children) :
           LET n == listItem.children[1].children[i]
           IN  n.type = "link" /\ ~isUrl(n.url)
    /\ messages = << >>

\* the diagnostics the kind, URL and text check is to report for a candidate
ExpectedKindOutcome(l) ==
    IF l.type = "linkReference" THEN << >>
    ELSE IF l.type = "link"
         THEN IF l.url # GoodUrl THEN << Message(MsgInvalidUrl, l) >>
              ELSE IF toString(l) = << >> THEN << Message(MsgInvalidLinkText, l) >>
              ELSE << >>
    ELSE << Message(MsgInvalidLink, l) >>

\* the diagnostics the child guard is to report for a candidate
ExpectedChildOutcome(l) ==
    LET bad == {i \in 1..Len(l.children) :
                    l.children[i].type \notin {"emphasis", "inlineCode", "text"}}
    IN  IF bad = {} THEN << >>
        ELSE << Message(MsgInvalidLink,
                        l.children[CHOOSE i \in bad : \A j \in bad : i <= j]) >>

\* C8: the link stage reports by candidate kind, URL validity and text
\* emptiness, in that order; the child guard runs only when that check passes
\* and reports the first child of a kind outside emphasis, inlineCode, text;
\* the description validator runs only when both pass.
C8_LinkStage ==
    /\ "link" \in ran /\ ExpectedKindOutcome(link) # << >> =>
           /\ pc = "continue"
           /\ messages = ExpectedKindOutcome(link)
           /\ ran \cap (LaterSteps \ {"link"}) = {}
    /\ "link" \in ran /\ ExpectedKindOutcome(link) = << >> =>
           /\ pc = "linkChildren" => messages = << >>
           /\ pc # "linkChildren" => "linkChildren" \in ran
    /\ "linkChildren" \in ran /\ ExpectedChildOutcome(link) # << >> =>
           /\ pc = "continue"
           /\ messages = ExpectedChildOutcome(link)
           /\ "description" \notin ran
    /\ "linkChildren" \in ran /\ ExpectedChildOutcome(link) = << >> =>
           /\ pc = "validateListItemDescription" => messages = << >>
           /\ pc # "validateListItemDescription" => "description" \in ran
    /\ "description" \in ran /\ ItemTaken =>
           ExpectedKindOutcome(link) = << >> /\ ExpectedChildOutcome(link) = << >>

\* C8 witness: a link whose URL is invalid and whose text is empty has been
\* reported for its URL.
C8_Witness ==
    /\ pc = "continue"
    /\ link.type = "link"
    /\ link.url = BadUrl
    /\ toString(link) = << >>
    /\ messages = << Message(MsgInvalidUrl, link) >>

ParagraphChildren == FirstChild(listItem).children

LinkLikePositions == {i \in 1..Len(ParagraphChildren) : IsLinkLike(ParagraphChildren[i])}

FirstLinkLike == CHOOSE i \in LinkLikePositions : \A j \in LinkLikePositions : i <= j

\* C9: for a list item that is not text-led and holds a link or linkReference
\* node, the filler loop ends with the first such node as the link candidate
\* and the children after it as the description; the candidate is reported as
\* an invalid link kind only when the children hold no such node.
C9_FirstLinkLikeFound ==
    "link" \in ran =>
        /\ LinkLikePositions # {} =>
               /\ link = ParagraphChildren[FirstLinkLike]
               /\ description = SubSeq(ParagraphChildren, FirstLinkLike + 1,
                                       Len(ParagraphChildren))
        /\ messages = << Message(MsgInvalidLink, link) >> /\ ~IsLinkLike(link) =>
               LinkLikePositions = {}

(***************************************************************************)
(* Properties of validateListItemDescription (specification SpecDesc).     *)
(***************************************************************************)
FlatDescription == toString(Root(description))

\* C2: a description that is exactly one inlineCode node is rejected with the
\* only-badges diagnostic.
C2_OnlyBadgesReported ==
    pc = "return" /\ Len(description) = 1 /\ description[1].type = "inlineCode" =>
        messages = << Message(MsgOnlyBadges, description[1]) >>

\* a first word the casing rule is to reject: no accepted casing, no digit, no
\* leading quote or parenthesis, not in the allow list
UnacceptableFirstWord(text) ==
    LET words == tokenizeWords(SubSeq(text, 4, Len(text)))
    IN  /\ words # << >>
        /\ \A i \in 1..Len(words[1]) : words[1][i] \in LowerLetters
        /\ words[1] \notin identifierAllowList

\* C3: in a mixed-markup description whose nodes before the badges all have an
\* allowed type, a dash text of more than 3 characters with an unacceptable
\* first word is rejected with the casing diagnostic, and a dash text of 3
\* characters or fewer is not checked for casing.
C3_MixedCasingChecked ==
    /\ pc = "return"
    /\ "markup" \in ran
    /\ firstInvalidMarkdown(beforeBadges(description, lastNonBadgeIndex)) = 0
    => /\ Len(description[1].value) > 3 /\ UnacceptableFirstWord(description[1].value) =>
              messages = << Message(MsgCasing, description[1]) >>
       /\ Len(description[1].value) <= 3 => messages = << >>

\* the number of nodes up to and including the last one that is no badge
SurvivingLength(desc) ==
    LET keep == {i \in 1..Len(desc) : ~IsBadge(desc[i])}
    IN  IF keep = {} THEN 0 ELSE CHOOSE i \in keep : \A j \in keep : j <= i

SurvivingPrefix(desc) == SubSeq(desc, 1, SurvivingLength(desc))

\* lines 220-272 for a whole description: the diagnostics of the badge scan, the
\* terminal node-type guard and the terminal punctuation rule
suffixDiagnostic(desc) ==
    LET lnbi == LastNonBadgeIndex(desc)
    IN  IF lnbi < 0 THEN << Message(MsgOnlyBadges, desc[1]) >>
        ELSE LET suffix == desc[lnbi + 1]
             IN  IF suffix.type \notin listItemDescriptionSuffixNodeAllowList
                 THEN << Message(MsgPunctuation, suffix) >>
                 ELSE IF /\ suffix.type = "text"
                         /\ ~validateListItemSuffix(lastSuffixText(desc, lnbi),
                                                    toString(suffix))
                 THEN << Message(MsgPunctuation, suffix) >>
                 ELSE << >>

\* the run has decided the node-type guard and the punctuation rule
SuffixDecided ==
    /\ "badges" \in ran
    /\ \/ pc = "casing"
       \/ pc = "return" /\ ran \cap {"casing", "markup"} = {}

\* the description ends in a non-empty sequence of badges
EndsInBadges == description # << >> /\ IsBadge(description[Len(description)])

\* C4, as claimed: with trailing badges the node-type guard and the punctuation
\* rule decide as they do for the surviving prefix validated without badges.
C4_BadgesNeutral ==
    SuffixDecided /\ EndsInBadges =>
        messages = suffixDiagnostic(SurvivingPrefix(description))

EndsInWhitespace(s) == s # << >> /\ s[Len(s)] \in Whitespace

\* C4, amended: the same, for surviving prefixes whose flattened text does not
\* end in whitespace.
C4_BadgesNeutralTrimmed ==
    /\ SuffixDecided
    /\ EndsInBadges
    /\ ~EndsInWhitespace(toString(Root(SurvivingPrefix(description))))
    => messages = suffixDiagnostic(SurvivingPrefix(description))

\* C4 witness: a description with badges was rejected by the punctuation rule,
\* as its surviving prefix is.
C4_Witness ==
    /\ SuffixDecided
    /\ EndsInBadges
    /\ ~EndsInWhitespace(toString(Root(SurvivingPrefix(description))))
    /\ Len(messages) = 1
    /\ "suffixPunctuation" \in ran

\* the message the claim gives a failed dash-separator check
ClaimedDashMessage(text) ==
    IF Len(text) >= 3 /\ text[1] \in {SP, NBSP} /\ text[2] = DASH /\ text[3] \in {SP, NBSP}
    THEN MsgInvalidWhitespace
    ELSE IF \E i \in 1..Len(text) :
                /\ text[i] \in {ENDASH, EMDASH}
                /\ \A k \in 1..(i - 1) : text[k] \in {SP, NBSP}
    THEN MsgInvalidDash
    ELSE MsgNoDash

\* C5: a failed dash-separator check reports on the first node exactly one of
\* the invalid-whitespace, the en-dash/em-dash (if and only if the text begins,
\* after optional whitespace, with an en-dash or em-dash) and the generic
\* diagnostic, chosen in that order.
C5_DashDiagnostic ==
    pc = "return" /\ "dash" \in ran /\ "badges" \notin ran =>
        messages = << Message(ClaimedDashMessage(toString(description[1])),
                              description[1]) >>

\* nothing but emoji and whitespace
EmojiOnly(s) == \A i \in 1..Len(s) : s[i] \in Whitespace \cup {EMOJI}

\* one parenthetical, with nothing but whitespace and emoji around it
SingleParenthetical(s) ==
    \E i \in 1..Len(s) : \E j \in (i + 2)..Len(s) :
        /\ s[i] = LPAREN
        /\ s[j] = RPAREN
        /\ \A k \in (i + 1)..(j - 1) : s[k] # RPAREN
        /\ \A k \in (1..(i - 1)) \cup ((j + 1)..Len(s)) : s[k] \in Whitespace \cup {EMOJI}

\* C6: a non-empty description that does not start with the dash separator and
\* is emoji-only or a single parenthetical gets no diagnostic; a description
\* that starts with the dash separator gets the normal steps.
C6_SpecialCasesAccepted ==
    /\ /\ pc = "return"
       /\ description # << >>
       /\ ~startsWith(FlatDescription, DashPrefix)
       /\ EmojiOnly(FlatDescription) \/ SingleParenthetical(FlatDescription)
       => messages = << >> /\ retval = "true"
    /\ "special" \in ran /\ startsWith(FlatDescription, DashPrefix) => "dash" \in ran \/ pc = "dash"

\* the text handed to the punctuation rule
PunctuationText == lastSuffixText(description, lastNonBadgeIndex)

\* the punctuation step ran on a text-typed terminal node
PunctuationDecided ==
    /\ "suffixPunctuation" \in ran
    /\ description[lastNonBadgeIndex + 1].type = "text"

PunctuationRejected ==
    /\ pc = "return"
    /\ ran \cap {"casing", "markup"} = {}
    /\ messages = << Message(MsgPunctuation, description[lastNonBadgeIndex + 1]) >>

PunctuationPassed == pc = "casing" \/ ran \cap {"casing", "markup"} # {}

\* s ends in a closing double quote preceded by exactly n punctuation marks
QuoteAfterMarks(s, n) ==
    /\ Len(s) >= n + 1
    /\ s[Len(s)] \in {QUOTE, RDQUO}
    /\ \A k \in (Len(s) - n)..(Len(s) - 1) : s[k] \in {DOT, "!", "?", ELLIPSIS}
    /\ Len(s) - n - 1 >= 1 => s[Len(s) - n - 1] \notin {DOT, "!", "?", ELLIPSIS}

\* C10, as claimed: two punctuation marks before the closing quote are
\* rejected, exactly one passes.
C10_DoublePunctuationRejected ==
    PunctuationDecided =>
        /\ QuoteAfterMarks(PunctuationText, 2) => PunctuationRejected
        /\ QuoteAfterMarks(PunctuationText, 1) => PunctuationPassed

\* s ends in a punctuation mark, a closing double quote and one or more
\* punctuation marks
QuoteBetweenMarks(s) ==
    \E i \in 2..(Len(s) - 1) :
        /\ s[i] \in {QUOTE, RDQUO}
        /\ s[i - 1] \in {DOT, "!", "?", ELLIPSIS}
        /\ \A k \in (i + 1)..Len(s) : s[k] \in {DOT, "!", "?", ELLIPSIS}

\* C10, amended: what is rejected is a closing quote between punctuation (a
\* mark, the quote, then marks to the end); a text that ends in the quote
\* passes with one and with two marks before it.
C10_QuoteBetweenPunctuationRejected ==
    PunctuationDecided =>
        /\ QuoteBetweenMarks(PunctuationText) => PunctuationRejected
        /\ QuoteAfterMarks(PunctuationText, 2) => PunctuationPassed
        /\ QuoteAfterMarks(PunctuationText, 1) => PunctuationPassed

\* C10 witness: a text ending in mark, quote, mark has been rejected.
C10_Witness ==
    /\ PunctuationDecided
    /\ QuoteBetweenMarks(PunctuationText)
    /\ PunctuationRejected

====
